---- MODULE Spec2Model ----
(***************************************************************************)
(* Model of src/lua_utf8.cpp: the codepoint-addressed string functions     *)
(* (sub, find, match, gmatch, gsub) that replace Lua's string library.     *)
(*                                                                         *)
(* A host string is a sequence of codepoints (valid UTF-8).  A             *)
(* UnicodeString is a sequence of UTF-16 code units: a codepoint of the    *)
(* basic plane is one unit, a supplementary codepoint ("S") is the pair    *)
(* "HI","LO".  countChar32 counts codepoints, while extractBetween,        *)
(* indexOf and the regex matcher address code units, as in the library.    *)
(***************************************************************************)
EXTENDS Integers, Sequences, FiniteSets, TLC

\* ---------------------------------------------------------------- bounds
MaxLen == 3
MaxIdx == 5
MaxCalls == 6
MaxGc == 2

\* ---------------------------------------------------------------- values
CodePoints == {"a", "b", "S"}

RECURSIVE SeqsUpTo(_, _)
SeqsUpTo(A, n) ==
    IF n = 0 THEN {<<>>}
    ELSE LET shorter == SeqsUpTo(A, n - 1)
         IN  shorter \cup {Append(s, c) : s \in {t \in shorter : Len(t) = n - 1}, c \in A}

Strings == SeqsUpTo(CodePoints, MaxLen)

\* Lua values: t is the type tag, s the text of a string (also the key a
\* table maps, or the text a function returns), n the value of a number.
Nil == [t |-> "nil", s |-> <<>>, n |-> 0]
Str(s) == [t |-> "string", s |-> s, n |-> 0]
Num(n) == [t |-> "number", s |-> <<>>, n |-> n]
Fn(s) == [t |-> "function", s |-> s, n |-> 0]
Tbl(k) == [t |-> "table", s |-> k, n |-> 0]

\* an optional integer argument (absent or nil: the default applies)
None == [given |-> FALSE, v |-> 0]
Opt(v) == [given |-> TRUE, v |-> v]
IdxArgs == {None} \cup {Opt(v) : v \in (0 - MaxIdx)..MaxIdx}

SubSeqFrom(s, a, b) == IF a > b THEN <<>> ELSE SubSeq(s, a, b)

\* ----------------------------------------------------------- codec bridge
\* UnicodeString::fromUTF8 of a valid UTF-8 string
RECURSIVE fromUTF8(_)
fromUTF8(s) ==
    IF s = <<>> THEN <<>>
    ELSE (IF Head(s) = "S" THEN <<"HI", "LO">> ELSE <<Head(s)>>) \o fromUTF8(Tail(s))

checkustring(v) == fromUTF8(v.s)

\* UnicodeString::toUTF8: a surrogate pair is one codepoint, an unpaired
\* surrogate is written as U+FFFD
RECURSIVE to_utf8(_)
to_utf8(u) ==
    IF u = <<>> THEN <<>>
    ELSE IF Head(u) = "HI" /\ Len(u) >= 2 /\ u[2] = "LO"
         THEN <<"S">> \o to_utf8(Tail(Tail(u)))
    ELSE IF Head(u) \in {"HI", "LO"} THEN <<"FFFD">> \o to_utf8(Tail(u))
    ELSE <<Head(u)>> \o to_utf8(Tail(u))

pushustring(u) == Str(to_utf8(u))

\* UnicodeString::countChar32: the number of codepoints
RECURSIVE countChar32(_)
countChar32(u) ==
    IF u = <<>> THEN 0
    ELSE IF Head(u) = "HI" /\ Len(u) >= 2 /\ u[2] = "LO"
         THEN 1 + countChar32(Tail(Tail(u)))
    ELSE 1 + countChar32(Tail(u))

Pin(i, n) == IF i < 0 THEN 0 ELSE IF i > n THEN n ELSE i

\* UnicodeString::extractBetween(start, limit, target): code units
\* [start, limit), both pinned to the string
extractBetween(u, start, limit) ==
    SubSeqFrom(u, Pin(start, Len(u)) + 1, Pin(limit, Len(u)))

\* ---------------------------------------------------------------- results
NoErr == [kind |-> "none", text |-> <<>>]
SyntaxErr(needle) == [kind |-> "syntax", text |-> to_utf8(needle)]
OtherErr(k) == [kind |-> k, text |-> <<>>]

\* n: the count returned to the host; vals: the values pushed for it
Ret(n, vals) == [n |-> n, vals |-> vals, err |-> NoErr]
Raise(e) == [n |-> 0, vals |-> <<>>, err |-> e]

\* ------------------------------------------------------------------- sub
\* the range after normalisation, as the assertions see it
\* SubStart1 without the clamp of a start past the end to len+1
SubStart1_NoUpperClamp(i, len) ==
    LET s0 == IF i.given THEN i.v ELSE 1
        s1 == IF s0 < 0 THEN s0 + len + 1 ELSE s0
    IN  IF s1 < 1 THEN 1 ELSE s1

SubStart1(i, len) ==
    LET s0 == IF i.given THEN i.v ELSE 1
        s1 == IF s0 < 0 THEN s0 + len + 1 ELSE s0
        s2 == IF s1 > len THEN len + 1 ELSE s1
    IN  IF s2 < 1 THEN 1 ELSE s2

\* SubLimit without the final "limit < start: limit = start-1"
SubLimit_NoEmptyClamp(i, j, len) ==
    LET l0 == IF j.given THEN j.v ELSE 0 - 1
        l1 == IF l0 < 0 THEN l0 + len + 1 ELSE l0
        l2 == IF l1 > len THEN len ELSE l1
    IN  IF l2 < 0 THEN 0 ELSE l2

SubLimit(i, j, len) ==
    LET l0 == IF j.given THEN j.v ELSE 0 - 1
        l1 == IF l0 < 0 THEN l0 + len + 1 ELSE l0
        l2 == IF l1 > len THEN len ELSE l1
        l3 == IF l2 < 0 THEN 0 ELSE l2
    IN  IF l3 < SubStart1(i, len) THEN SubStart1(i, len) - 1 ELSE l3

SubRange(i, j, len) ==
    [start |-> SubStart1(i, len) - 1, limit |-> SubLimit(i, j, len), len |-> len]

SubAsserts(r) ==
    /\ r.start >= 0
    /\ r.start <= r.len
    /\ r.limit >= 0
    /\ r.limit <= r.len
    /\ r.start <= r.limit

lua_utf8_sub(s, i, j) ==
    LET ustr == checkustring(Str(s))
        r == SubRange(i, j, countChar32(ustr))
    IN  IF ~SubAsserts(r) THEN Raise(OtherErr("assert"))
        ELSE Ret(1, <<pushustring(extractBetween(ustr, r.start, r.limit))>>)

\* ---------------------------------------------------------- regex engine
\* The patterns the model draws from: a literal, a greedy run, a pattern
\* that matches the empty string, two capture groups, a supplementary
\* codepoint, and an unbalanced parenthesis (which does not compile).
Patterns ==
    { <<"a">>, <<"a", "+">>, <<"b", "*">>, <<"(", "a", ")", "(", "b", ")">>,
      <<"S">>, <<"(">> }

NoPattern == [ok |-> FALSE, atoms |-> <<>>, ng |-> 0]

\* An atom is a literal u (code units) with a quantifier q, inside capture
\* group g (0: outside any group).
RECURSIVE Parse(_, _, _, _, _)
Parse(p, i, cur, ng, atoms) ==
    IF i > Len(p) THEN
        IF cur # 0 THEN NoPattern ELSE [ok |-> TRUE, atoms |-> atoms, ng |-> ng]
    ELSE IF p[i] = "(" THEN
        IF cur # 0 THEN NoPattern ELSE Parse(p, i + 1, ng + 1, ng + 1, atoms)
    ELSE IF p[i] = ")" THEN
        IF cur = 0 THEN NoPattern ELSE Parse(p, i + 1, 0, ng, atoms)
    ELSE IF p[i] \in {"+", "*"} THEN
        IF atoms = <<>> \/ i = 1 THEN NoPattern
        ELSE IF p[i - 1] \in {"(", ")", "+", "*"} THEN NoPattern
        ELSE Parse(p, i + 1, cur, ng,
                   [atoms EXCEPT ![Len(atoms)].q = p[i]])
    ELSE IF p[i] = "HI" /\ i < Len(p) /\ p[i + 1] = "LO" THEN
        Parse(p, i + 2, cur, ng,
              Append(atoms, [u |-> <<"HI", "LO">>, q |-> "1", g |-> cur]))
    ELSE Parse(p, i + 1, cur, ng, Append(atoms, [u |-> <<p[i]>>, q |-> "1", g |-> cur]))

\* RegexMatcher(needle, 0, status): status is a failure iff ~ok
RegexCompile(needle) == Parse(needle, 1, 0, 0, <<>>)

IsAt(u, text, pos) ==
    /\ pos + Len(u) <= Len(text)
    /\ \A k \in 1..Len(u) : text[pos + k] = u[k]

RECURSIVE RepMax(_, _, _)
RepMax(u, text, pos) ==
    IF IsAt(u, text, pos) THEN 1 + RepMax(u, text, pos + Len(u)) ELSE 0

NoMatch == [ok |-> FALSE, s |-> 0, e |-> 0, grp |-> <<>>]

\* the backtracking match of atoms k.. at code unit offset pos, greedy
RECURSIVE Try(_, _, _, _, _), TryCount(_, _, _, _, _, _, _)
Try(atoms, k, text, pos, grp) ==
    IF k > Len(atoms) THEN [ok |-> TRUE, s |-> 0, e |-> pos, grp |-> grp]
    ELSE LET a == atoms[k]
             most == RepMax(a.u, text, pos)
             hi == IF a.q = "1" /\ most > 1 THEN 1 ELSE most
             lo == IF a.q = "*" THEN 0 ELSE 1
         IN  TryCount(atoms, k, text, pos, grp, hi, lo)

TryCount(atoms, k, text, pos, grp, c, lo) ==
    IF c < lo THEN NoMatch
    ELSE LET a == atoms[k]
             e == pos + c * Len(a.u)
             g2 == IF a.g = 0 THEN grp
                   ELSE [grp EXCEPT ![a.g] = @ \o SubSeqFrom(text, pos + 1, e)]
             r == Try(atoms, k + 1, text, e, g2)
         IN  IF r.ok THEN r ELSE TryCount(atoms, k, text, pos, grp, c - 1, lo)

\* the leftmost match that starts at or after code unit offset from
RECURSIVE Search(_, _, _)
Search(pat, text, from) ==
    IF from > Len(text) THEN NoMatch
    ELSE LET r == Try(pat.atoms, 1, text, from, [g \in 1..pat.ng |-> <<>>])
         IN  IF r.ok THEN [r EXCEPT !.s = from] ELSE Search(pat, text, from + 1)

\* RegexMatcher state, after RegexMatcher::reset(input)
reset(pat, text) ==
    [pat |-> pat, text |-> text, fMatch |-> FALSE, fMatchStart |-> 0,
     fMatchEnd |-> 0, fLastMatchEnd |-> 0 - 1, fAppendPosition |-> 0,
     grp |-> <<>>]

\* U16_FWD_1: step over one codepoint
Fwd1(text, pos) ==
    IF pos + 2 <= Len(text) /\ text[pos + 1] = "HI" /\ text[pos + 2] = "LO"
    THEN pos + 2 ELSE pos + 1

FindAt(m, startPos, last) ==
    LET r == Search(m.pat, m.text, startPos)
    IN  IF r.ok
        THEN [m EXCEPT !.fMatch = TRUE, !.fMatchStart = r.s, !.fMatchEnd = r.e,
                       !.fLastMatchEnd = last, !.grp = r.grp]
        ELSE [m EXCEPT !.fMatch = FALSE, !.fLastMatchEnd = last]

\* RegexMatcher::find(): the next match after the previous one; a matcher
\* whose find has failed after a match stays failed
find(m) ==
    IF m.fMatch THEN
        IF m.fMatchStart = m.fMatchEnd THEN
            IF m.fMatchEnd >= Len(m.text)
            THEN [m EXCEPT !.fMatch = FALSE, !.fLastMatchEnd = m.fMatchEnd]
            ELSE FindAt(m, Fwd1(m.text, m.fMatchEnd), m.fMatchEnd)
        ELSE FindAt(m, m.fMatchEnd, m.fMatchEnd)
    ELSE IF m.fLastMatchEnd >= 0 THEN m
    ELSE FindAt(m, m.fMatchEnd, m.fLastMatchEnd)

IndexOK(m, index) == index >= 0 /\ index <= Len(m.text)

\* RegexMatcher::reset(index, status), for an index in range
resetAt(m, index) == [reset(m.pat, m.text) EXCEPT !.fMatchEnd = index]

\* RegexMatcher::find(start, status), for a start in range
findFrom(m, start) == FindAt(reset(m.pat, m.text), start, 0 - 1)

groupCount(m) == m.pat.ng
group0(m) == SubSeqFrom(m.text, m.fMatchStart + 1, m.fMatchEnd)
group(m, i) == m.grp[i]

\* ------------------------------------------------------------------ find
\* UnicodeString::indexOf(text, start): code unit offset of the first
\* occurrence at or after start, -1 if none or if text is empty
RECURSIVE indexOfFrom(_, _, _)
indexOfFrom(u, needle, start) ==
    IF start > Len(u) THEN 0 - 1
    ELSE IF IsAt(needle, u, start) THEN start
    ELSE indexOfFrom(u, needle, start + 1)

indexOf(u, needle, start) ==
    IF needle = <<>> THEN 0 - 1 ELSE indexOfFrom(u, needle, Pin(start, Len(u)))

\* the 0-based offset find searches from, for an init that is not past the end
FindInit(init, len) ==
    LET i1 == IF init < 0 THEN init + len + 1 ELSE init
        i2 == IF i1 < 1 THEN 1 ELSE i1
    IN  i2 - 1

Groups(m) == [i \in 1..groupCount(m) |-> pushustring(group(m, i))]

lua_utf8_find(s, p, init, plain) ==
    LET haystack == checkustring(Str(s))
        needle == checkustring(Str(p))
        haystack_len == countChar32(haystack)
        needle_len == countChar32(needle)
        init0 == IF init.given THEN init.v ELSE 1
        from == FindInit(init0, haystack_len)
        r == indexOf(haystack, needle, from)
        pat == RegexCompile(needle)
        m == findFrom(reset(pat, haystack), from)
    IN  IF init0 > haystack_len THEN Ret(0, <<>>)
        ELSE IF plain THEN
            IF r = 0 - 1 THEN Ret(1, <<Nil>>)
            ELSE Ret(2, <<Num(r + 1), Num(r + needle_len)>>)
        ELSE IF ~pat.ok THEN Raise(SyntaxErr(needle))
        ELSE IF ~IndexOK(reset(pat, haystack), from) THEN Raise(OtherErr("engine"))
        ELSE IF m.fMatch
             THEN Ret(2 + groupCount(m),
                      <<Num(m.fMatchStart + 1), Num(m.fMatchEnd)>> \o Groups(m))
        ELSE Ret(1, <<Nil>>)

\* ----------------------------------------------------------------- match
\* the matcher after matcher.find(), and what aux_match returns for it
aux_match(m) ==
    LET m1 == find(m)
    IN  [m |-> m1,
         ret |-> IF m1.fMatch
                 THEN IF groupCount(m1) = 0
                      THEN Ret(1, <<pushustring(group0(m1))>>)
                      ELSE Ret(groupCount(m1), Groups(m1))
                 ELSE Ret(1, <<Nil>>)]

\* the 0-based offset match resets the matcher to
MatchInit(init, len) ==
    LET i0 == IF init > len THEN len ELSE init
        i1 == IF i0 < 0 THEN i0 + len + 1 ELSE i0
        i2 == IF i1 < 1 THEN 1 ELSE i1
    IN  i2 - 1

lua_utf8_match(s, p, init) ==
    LET haystack == checkustring(Str(s))
        needle == checkustring(Str(p))
        haystack_len == countChar32(haystack)
        init0 == IF init.given THEN init.v ELSE 1
        from == MatchInit(init0, haystack_len)
        pat == RegexCompile(needle)
        m == reset(pat, haystack)
    IN  IF haystack_len = 0 THEN Ret(1, <<Nil>>)
        ELSE IF ~pat.ok THEN Raise(SyntaxErr(needle))
        ELSE IF ~IndexOK(m, from) THEN Raise(OtherErr("engine"))
        ELSE aux_match(resetAt(m, from)).ret

\* ---------------------------------------------------------------- gmatch
\* the persistent matcher a gmatch closure holds as its upvalue: live is
\* whether the handle (userdata) holds a non-null pointer, freed the number
\* of times the matcher object was deleted, gcs the number of finalizer
\* invocations on the handle
NoIter ==
    [live |-> FALSE, s |-> <<>>, p |-> <<>>, m |-> reset(NoPattern, <<>>),
     yielded |-> <<>>, freed |-> 0, gcs |-> 0]

\* RegexWrapper(needle, haystack), then matcher.reset(text)
RegexWrapper(s, p) ==
    [live |-> TRUE, s |-> s, p |-> p,
     m |-> reset(RegexCompile(checkustring(Str(p))), checkustring(Str(s))),
     yielded |-> <<>>, freed |-> 0, gcs |-> 0]

\* GET_UD_MACRO_OFFSET(RegexWrapper, self, 1, tag, 0): self is the pointer
\* the handle holds ("null" once the handle has been cleared)
GET_UD_MACRO_OFFSET(w) == IF w.live THEN "object" ELSE "null"

\* regex_matcher_gc: nothing for a null self, else delete self; the handle
\* keeps its pointer
regex_matcher_gc(w) ==
    IF GET_UD_MACRO_OFFSET(w) = "null" THEN [w EXCEPT !.gcs = @ + 1]
    ELSE [w EXCEPT !.freed = @ + 1, !.gcs = @ + 1]

\* an iterator that searches from the start of the subject on every call
lua_utf8_gmatch_iter_Restart(w) ==
    LET a == aux_match(reset(w.m.pat, w.m.text))
    IN  [w EXCEPT !.m = a.m, !.yielded = Append(@, a.ret.vals)]

\* lua_utf8_gmatch_iter: one invocation of the closure; yielded is the
\* history of what the invocations returned
lua_utf8_gmatch_iter(w) ==
    LET a == aux_match(w.m)
    IN  [w EXCEPT !.m = a.m, !.yielded = Append(@, a.ret.vals)]

\* ------------------------------------------------------------------ gsub
ReplMode(repl) ==
    IF repl.t = "function" THEN 0 ELSE IF repl.t = "table" THEN 1 ELSE 2

\* lua_gettable on table t with key k: a table Tbl(key) maps key to "b"
TableGet(t, k) == IF k.t = "string" /\ k.s = t.s THEN Str(<<"b">>) ELSE Nil

\* lua_call(L, nargs, 1) on stack st: the callee is the value beneath the
\* top nargs values; callee and arguments are popped, one result is pushed
Callee(st, nargs) == st[Len(st) - nargs]
CallArgs(st, nargs) == SubSeqFrom(st, Len(st) - nargs + 1, Len(st))
AfterCall(st, nargs) ==
    Append(SubSeqFrom(st, 1, Len(st) - nargs - 1), Str(Callee(st, nargs).s))

\* what one replaced match pushes before lua_call: its captures (or the
\* whole match), then a copy of repl (stack index 3)
CallFrame(st, m) ==
    (st \o (IF groupCount(m) = 0 THEN <<pushustring(group0(m))>> ELSE Groups(m)))
        \o <<st[3]>>
CallNargs(m) == IF groupCount(m) = 0 THEN 1 ELSE groupCount(m)

\* the key of a table lookup: the first capture, or the whole match
TableKey(m) ==
    IF groupCount(m) = 0 THEN pushustring(group0(m)) ELSE pushustring(group(m, 1))

\* RegexMatcher::appendReplacement for a replacement text without $ or \
appendReplacement(g, repl) ==
    [g EXCEPT !.r = (@ \o SubSeqFrom(g.m.text, g.m.fAppendPosition + 1, g.m.fMatchStart))
                        \o repl,
              !.m.fAppendPosition = g.m.fMatchEnd]

appendTail(g) == g.r \o SubSeqFrom(g.m.text, g.m.fAppendPosition + 1, Len(g.m.text))

\* the loop test: matcher.find() && counter++ != n
LoopTest(g, n) ==
    LET m1 == find(g.m)
    IN  IF ~m1.fMatch THEN [g EXCEPT !.m = m1, !.go = FALSE]
        ELSE [g EXCEPT !.m = m1, !.go = (g.counter # n), !.counter = @ + 1]

\* the loop body for one match, by mode
LoopBody(g, mode, repl) ==
    IF mode = 0 THEN
        LET st1 == CallFrame(g.stack, g.m)
            k == CallNargs(g.m)
            call == [callee |-> Callee(st1, k), args |-> CallArgs(st1, k)]
            g1 == [g EXCEPT !.calls = Append(@, call)]
        IN  IF call.callee.t # "function"
            THEN [g1 EXCEPT !.stack = st1, !.err = OtherErr("call")]
            ELSE appendReplacement([g1 EXCEPT !.stack = AfterCall(st1, k)],
                                   checkustring(Str(call.callee.s)))
    ELSE IF mode = 1 THEN
        LET v == TableGet(g.stack[3], TableKey(g.m))
            g1 == [g EXCEPT !.stack = Append(@, v)]
        IN  IF v.t # "string" THEN [g1 EXCEPT !.err = OtherErr("type")]
            ELSE appendReplacement(g1, checkustring(v))
    ELSE appendReplacement(g, checkustring(repl))

\* depths records the stack depth at the start of each iteration whose
\* body runs, replaced counts those iterations
RECURSIVE GsubLoop(_, _, _, _)
GsubLoop(g, mode, repl, n) ==
    LET g1 == LoopTest(g, n)
        g2 == LoopBody([g1 EXCEPT !.replaced = @ + 1,
                                  !.depths = Append(@, Len(g.stack))], mode, repl)
    IN  IF ~g1.go THEN g1
        ELSE IF g2.err.kind # "none" THEN g2
        ELSE GsubLoop(g2, mode, repl, n)

\* the whole call: the final loop state, and what is returned to the host
GsubRun(s, p, repl, n) ==
    LET haystack == checkustring(Str(s))
        needle == checkustring(Str(p))
        pat == RegexCompile(needle)
        n0 == IF n.given THEN n.v ELSE 0 - 1
        st == <<Str(s), Str(p), repl>> \o (IF n.given THEN <<Num(n.v)>> ELSE <<>>)
        g0 == [m |-> reset(pat, haystack), r |-> <<>>, counter |-> 0, go |-> TRUE,
               stack |-> st, calls |-> <<>>, depths |-> <<>>, replaced |-> 0,
               err |-> NoErr]
    IN  IF ~pat.ok THEN [g0 EXCEPT !.err = SyntaxErr(needle)]
        ELSE GsubLoop(g0, ReplMode(repl), repl, n0)

lua_utf8_gsub(g) ==
    IF g.err.kind # "none" THEN Raise(g.err)
    ELSE Ret(1, <<pushustring(appendTail(g))>>)

\* -------------------------------------------------------- codepoint, char
Units == {"a", "b", "HI", "LO", "FFFD"}

\* the numeric value of a code unit (U+0061, U+0062, the surrogates of
\* U+1F600, U+FFFD) and of a codepoint
UnitNum(u) ==
    CASE u = "a" -> 97
      [] u = "b" -> 98
      [] u = "HI" -> 55357
      [] u = "LO" -> 56832
      [] u = "FFFD" -> 65533
CpNum(c) == IF c = "S" THEN 128512 ELSE UnitNum(c)
UnitOf(k) == CHOOSE u \in Units : UnitNum(u) = k

\* UnicodeString::append(UChar32): one unit, or the surrogate pair of a
\* codepoint above U+FFFF
AppendCp(c) ==
    IF c > 65535 THEN <<UnitOf(55232 + (c \div 1024)), UnitOf(56320 + (c % 1024))>>
    ELSE <<UnitOf(c)>>

RECURSIVE CharUnits(_)
CharUnits(cps) ==
    IF cps = <<>> THEN <<>> ELSE AppendCp(Head(cps)) \o CharUnits(Tail(cps))

lua_utf8_char(cps) == Ret(1, <<pushustring(CharUnits(cps))>>)

\* the 1-based first and last position of the loop
CodepointPosi(i) ==
    LET p0 == IF i.given THEN i.v ELSE 1
    IN  IF p0 <= 0 THEN 1 ELSE p0

CodepointPose(i, j, len) ==
    LET e0 == IF j.given THEN j.v ELSE CodepointPosi(i)
        e1 == IF e0 <= CodepointPosi(i) THEN CodepointPosi(i) ELSE e0
    IN  IF e1 > len THEN len ELSE e1

\* ustr[i-1] is UnicodeString::operator[]: the code unit at that offset
lua_utf8_codepoint(s, i, j) ==
    LET ustr == checkustring(Str(s))
        posi == CodepointPosi(i)
        pose == CodepointPose(i, j, countChar32(ustr))
    IN  [n |-> pose - posi + 1,
         vals |-> [k \in 1..(pose - posi + 1) |-> Num(UnitNum(ustr[posi + k - 1]))],
         err |-> NoErr]

\* ------------------------------------------------------------ the program
\* One host call per behaviour: Init draws the function and its arguments,
\* the action of that function runs the whole call.  A gmatch call leaves
\* a closure, which is then invoked any number of times and collected.
VARIABLES pc, call, ret, obs, it
vars == <<pc, call, ret, obs, it>>

NoCall ==
    [fn |-> "none", s |-> <<>>, p |-> <<>>, i |-> None, j |-> None,
     plain |-> FALSE, repl |-> Nil, cps |-> <<>>]
NoObs ==
    [start |-> 0, limit |-> 0, len |-> 0, calls |-> <<>>, depths |-> <<>>,
     replaced |-> 0]

Repls == {Str(<<"b">>), Str(<<>>), Fn(<<"b">>), Tbl(<<"a">>)}
Limits == {None} \cup {Opt(v) : v \in 0..(MaxLen + 1)}

SubCalls ==
    {[NoCall EXCEPT !.fn = "sub", !.s = s, !.i = i, !.j = j] :
        s \in Strings, i \in IdxArgs, j \in IdxArgs}
FindCalls ==
    {[NoCall EXCEPT !.fn = "find", !.s = s, !.p = p, !.i = i, !.plain = b] :
        s \in Strings, p \in Patterns, i \in IdxArgs, b \in BOOLEAN}
MatchCalls ==
    {[NoCall EXCEPT !.fn = "match", !.s = s, !.p = p, !.i = i] :
        s \in Strings, p \in Patterns, i \in IdxArgs}
GsubCalls ==
    {[NoCall EXCEPT !.fn = "gsub", !.s = s, !.p = p, !.repl = r, !.i = n] :
        s \in Strings, p \in Patterns, r \in Repls, n \in Limits}
GmatchCalls ==
    {[NoCall EXCEPT !.fn = "gmatch", !.s = s, !.p = p] :
        s \in Strings, p \in Patterns}

\* codepoint(s [, i [, j]]): j is given only together with i
CodepointCalls ==
    {[NoCall EXCEPT !.fn = "codepoint", !.s = s, !.i = ij[1], !.j = ij[2]] :
        s \in Strings,
        ij \in {x \in IdxArgs \X IdxArgs : x[2].given => x[1].given}}
\* codepoint(char(c1, ..., cn)) and codepoint(char(c1, ..., cn), 1, n)
CharCalls ==
    {[NoCall EXCEPT !.fn = "char", !.cps = [k \in 1..Len(s) |-> CpNum(s[k])]] :
        s \in Strings}
    \cup {[NoCall EXCEPT !.fn = "char", !.cps = [k \in 1..Len(s) |-> CpNum(s[k])],
                        !.i = Opt(1), !.j = Opt(Len(s))] : s \in Strings}

\* the state before one of the calls cs
InitFor(cs) ==
    /\ pc = "call"
    /\ call \in cs
    /\ ret = Ret(0, <<>>)
    /\ obs = NoObs
    /\ it = NoIter

Init ==
    InitFor(SubCalls \cup FindCalls \cup MatchCalls \cup GsubCalls \cup GmatchCalls
            \cup CodepointCalls \cup CharCalls)

Sub ==
    /\ pc = "call" /\ call.fn = "sub"
    /\ ret' = lua_utf8_sub(call.s, call.i, call.j)
    /\ obs' = [NoObs EXCEPT
                 !.start = SubRange(call.i, call.j,
                                    countChar32(checkustring(Str(call.s)))).start,
                 !.limit = SubRange(call.i, call.j,
                                    countChar32(checkustring(Str(call.s)))).limit,
                 !.len = countChar32(checkustring(Str(call.s)))]
    /\ pc' = "done"
    /\ UNCHANGED <<call, it>>

Find ==
    /\ pc = "call" /\ call.fn = "find"
    /\ ret' = lua_utf8_find(call.s, call.p, call.i, call.plain)
    /\ pc' = "done"
    /\ UNCHANGED <<call, obs, it>>

Match ==
    /\ pc = "call" /\ call.fn = "match"
    /\ ret' = lua_utf8_match(call.s, call.p, call.i)
    /\ pc' = "done"
    /\ UNCHANGED <<call, obs, it>>

Gsub ==
    /\ pc = "call" /\ call.fn = "gsub"
    /\ LET g == GsubRun(call.s, call.p, call.repl, call.i)
       IN  /\ ret' = lua_utf8_gsub(g)
           /\ obs' = [NoObs EXCEPT !.calls = g.calls, !.depths = g.depths,
                                   !.replaced = g.replaced]
    /\ pc' = "done"
    /\ UNCHANGED <<call, it>>

\* lua_utf8_gmatch: on a pattern that does not compile the matcher is
\* deleted and an error raised; otherwise the closure is returned
Gmatch ==
    /\ pc = "call" /\ call.fn = "gmatch"
    /\ IF RegexWrapper(call.s, call.p).m.pat.ok
       THEN /\ ret' = Ret(1, <<Fn(<<>>)>>)
            /\ it' = RegexWrapper(call.s, call.p)
            /\ pc' = "iter"
       ELSE /\ ret' = Raise(SyntaxErr(checkustring(Str(call.p))))
            /\ it' = NoIter
            /\ pc' = "done"
    /\ UNCHANGED <<call, obs>>

\* the closure is invoked only while its matcher has not been finalized
GmatchIter ==
    /\ pc = "iter" /\ it.live /\ it.gcs = 0
    /\ Len(it.yielded) < MaxCalls
    /\ it' = lua_utf8_gmatch_iter(it)
    /\ ret' = aux_match(it.m).ret
    /\ UNCHANGED <<pc, call, obs>>

\* the finalizer of the handle is invoked: by the collector when the
\* closure becomes garbage, or again on the same handle
Collect ==
    /\ pc \in {"iter", "gc"}
    /\ it.gcs < MaxGc
    /\ it' = regex_matcher_gc(it)
    /\ pc' = "gc"
    /\ UNCHANGED <<call, ret, obs>>

\* char(...) whose result is passed on to codepoint
Char ==
    /\ pc = "call" /\ call.fn = "char"
    /\ ret' = lua_utf8_char(call.cps)
    /\ pc' = "chain"
    /\ UNCHANGED <<call, obs, it>>

\* codepoint on the string of the call, or on the string char returned
Codepoint ==
    /\ (pc = "call" /\ call.fn = "codepoint") \/ pc = "chain"
    /\ ret' = lua_utf8_codepoint(IF pc = "chain" THEN ret.vals[1].s ELSE call.s,
                                 call.i, call.j)
    /\ pc' = "done"
    /\ UNCHANGED <<call, obs, it>>

Next ==
    \/ Sub \/ Find \/ Match \/ Gsub \/ Gmatch \/ GmatchIter \/ Collect
    \/ Char \/ Codepoint

Spec == Init /\ [][Next]_vars

\* one specification per function, for the claims about that function
InitSub == InitFor(SubCalls)
InitFind == InitFor(FindCalls)
InitMatch == InitFor(MatchCalls)
InitGsub == InitFor(GsubCalls)
InitGmatch == InitFor(GmatchCalls)

InitCodepoint == InitFor(CodepointCalls \cup CharCalls)
NextCodepoint == Char \/ Codepoint
SpecCodepoint == InitCodepoint /\ [][NextCodepoint]_vars

NextGmatch == Gmatch \/ GmatchIter \/ Collect

SpecSub == InitSub /\ [][Sub]_vars
SpecFind == InitFind /\ [][Find]_vars
SpecMatch == InitMatch /\ [][Match]_vars
SpecGsub == InitGsub /\ [][Gsub]_vars
SpecGmatch == InitGmatch /\ [][NextGmatch]_vars

\* ---------------------------------------------------------------- claims
Returned(fn) == pc = "done" /\ call.fn = fn
CallLen == countChar32(checkustring(Str(call.s)))
CallPat == RegexCompile(checkustring(Str(call.p)))

\* C1: in sub, whatever the two indices are, the normalized range handed
\* to the extraction satisfies 0 <= start <= limit <= len: none of the
\* five assertions fails.
C1_SubRangeInBounds ==
    Returned("sub") =>
        /\ ret.err.kind # "assert"
        /\ obs.len = CallLen
        /\ 0 <= obs.start /\ obs.start <= obs.limit /\ obs.limit <= obs.len

\* a start far past the end with a limit far before the start
C1_Witness ==
    /\ Returned("sub")
    /\ call.i.given /\ call.i.v > obs.len + 1
    /\ call.j.given /\ call.j.v < 0 - obs.len - 1
    /\ obs.len >= 2 /\ obs.start = obs.len /\ obs.limit = obs.len

\* C2 (as claimed): sub(s, 1, -1) returns s unchanged, for every s, also
\* one with codepoints stored as two code units.
C2_SubWholeIsIdentity ==
    (Returned("sub") /\ call.i = Opt(1) /\ call.j = Opt(0 - 1)) =>
        ret = Ret(1, <<Str(call.s)>>)

\* C3 (as claimed): sub(s, i, j) with j < i returns the empty string.
C3_RawOrderGivesEmpty ==
    (Returned("sub") /\ call.i.given /\ call.j.given /\ call.j.v < call.i.v) =>
        ret = Ret(1, <<Str(<<>>)>>)

\* an index as sub reads it: absent is the default, negative counts from the end
RelIdx(a, dflt, len) ==
    LET v == IF a.given THEN a.v ELSE dflt
    IN  IF v < 0 THEN v + len + 1 ELSE v

\* C3 (amended): sub(s, i, j) returns the empty string whenever j < i holds
\* after an absent i is read as 1, an absent j as -1, and a negative index
\* v as v + L + 1.
C3_NormalizedOrderGivesEmpty ==
    (Returned("sub") /\ RelIdx(call.j, 0 - 1, CallLen) < RelIdx(call.i, 1, CallLen)) =>
        ret = Ret(1, <<Str(<<>>)>>)

\* an end two or more before the start, both inside a non-empty string
C3_Witness ==
    /\ Returned("sub")
    /\ call.i = Opt(3) /\ call.j = Opt(1) /\ CallLen >= 3
    /\ ret = Ret(1, <<Str(<<>>)>>)

FindsNothing ==
    /\ ret.err.kind = "none"
    /\ ret.vals = <<>> \/ ret.vals[1].t # "number"

\* C4 (as claimed): a find that finds nothing (plain or regex search that
\* fails, or init > L) returns exactly one value, nil.
C4_FindNoMatchIsOneNil ==
    (Returned("find") /\ FindsNothing) => ret = Ret(1, <<Nil>>)

\* C5 (as claimed): match with init > L returns the no-match result
\* whatever the (valid) pattern is; init is not clamped and no search is run.
C5_MatchInitPastEndFails ==
    (Returned("match") /\ CallPat.ok /\ call.i.given /\ call.i.v > CallLen) =>
        ret = Ret(1, <<Nil>>)

\* C6 (as claimed): when the pattern does not compile, find (non-plain),
\* match, gmatch and gsub each raise an error containing the pattern text,
\* for every haystack and every init.
C6_BadPatternAlwaysRaises ==
    (/\ pc = "done"
     /\ call.fn \in {"find", "match", "gmatch", "gsub"}
     /\ ~call.plain
     /\ ~CallPat.ok)
        => (ret.err.kind = "syntax" /\ ret.err.text = call.p)

\* ------------------------------------------------- claims on gsub, gmatch
\* the matches of pat in text, left to right: each search starts where the
\* previous match ended, one codepoint further after an empty match
RECURSIVE AllMatches(_, _, _)
AllMatches(pat, text, from) ==
    LET r == Search(pat, text, from)
    IN  IF from > Len(text) \/ ~r.ok THEN <<>>
        ELSE <<r>> \o AllMatches(pat, text, IF r.e = r.s THEN Fwd1(text, r.e) ELSE r.e)

MatchText(text, r) == to_utf8(SubSeqFrom(text, r.s + 1, r.e))

\* the captures of match r as host strings, or the whole match without groups
Captures(pat, text, r) ==
    IF pat.ng = 0 THEN <<Str(MatchText(text, r))>>
    ELSE [i \in 1..pat.ng |-> Str(to_utf8(r.grp[i]))]

Min(a, b) == IF a < b THEN a ELSE b

\* the replacement text for match r: the template, the function's result,
\* or the table's entry for the first capture (the match is kept for nil)
ReplText(repl, pat, text, r) ==
    IF repl.t = "table"
    THEN IF Captures(pat, text, r)[1].s = repl.s THEN <<"b">> ELSE MatchText(text, r)
    ELSE repl.s

\* text with the first k of the matches ms replaced, the rest copied
RECURSIVE Substituted(_, _, _, _, _, _)
Substituted(repl, pat, text, ms, k, pos) ==
    IF ms = <<>> \/ k = 0 THEN to_utf8(SubSeqFrom(text, pos + 1, Len(text)))
    ELSE (to_utf8(SubSeqFrom(text, pos + 1, Head(ms).s))
            \o ReplText(repl, pat, text, Head(ms)))
            \o Substituted(repl, pat, text, Tail(ms), k - 1, Head(ms).e)

CallText == checkustring(Str(call.s))
CallMatches == AllMatches(CallPat, CallText, 0)
CallQuota ==
    IF call.i.given THEN Min(call.i.v, Len(CallMatches)) ELSE Len(CallMatches)

\* repl has a replacement for each match to replace: a template, a
\* function, or a table holding the key of each of those matches
ReplDefined ==
    call.repl.t = "table" =>
        \A k \in 1..CallQuota :
            Captures(CallPat, CallText, CallMatches[k])[1].s = call.repl.s

\* C7 (as claimed): gsub with limit n >= 0 on a haystack with M matches
\* replaces exactly the first min(n, M) matches and copies the rest
\* verbatim; with n absent it replaces all M.
C7_GsubReplacesFirstN ==
    (Returned("gsub") /\ CallPat.ok /\ ReplDefined) =>
        ret.vals = <<Str(Substituted(call.repl, CallPat, CallText, CallMatches,
                                     CallQuota, 0))>>

\* the same for a template repl alone (not the claim: the claim covers
\* every kind of repl)
GsubTemplateReplacesFirstN ==
    (Returned("gsub") /\ CallPat.ok /\ call.repl.t = "string") =>
        /\ ret.vals = <<Str(Substituted(call.repl, CallPat, CallText, CallMatches,
                                        CallQuota, 0))>>
        /\ obs.replaced = CallQuota

\* C8 (as claimed): gsub returns two results, the substituted string and
\* the number of replacements performed.
C8_GsubReturnsCount ==
    (Returned("gsub") /\ ret.err.kind = "none") =>
        (ret.n = 2 /\ Len(ret.vals) = 2 /\ ret.vals[2] = Num(obs.replaced))

\* C9 (as claimed): with a callable repl, each replaced match invokes repl
\* itself, with the captures (or the whole match) as its arguments.
C9_CallInvokesRepl ==
    (Returned("gsub") /\ call.repl.t = "function") =>
        \A k \in 1..Len(obs.calls) :
            /\ obs.calls[k].callee = call.repl
            /\ k <= Len(CallMatches)
            /\ obs.calls[k].args = Captures(CallPat, CallText, CallMatches[k])

ItMatches == AllMatches(it.m.pat, it.m.text, 0)

\* C10: the k-th invocation of a gmatch iterator yields the k-th match of
\* the subject, left to right, for k up to the number M of matches; every
\* later invocation yields the single no-match value.
C10_IterYieldsMatchesThenNil ==
    (call.fn = "gmatch" /\ pc # "call" /\ CallPat.ok) =>
        \A k \in 1..Len(it.yielded) :
            it.yielded[k] = IF k <= Len(ItMatches)
                            THEN Captures(it.m.pat, it.m.text, ItMatches[k])
                            ELSE <<Nil>>

\* two or more matches yielded, then no-match twice
C10_Witness ==
    /\ call.fn = "gmatch" /\ pc = "iter"
    /\ Len(ItMatches) >= 2
    /\ Len(it.yielded) >= Len(ItMatches) + 2
    /\ it.yielded[Len(ItMatches) + 2] = <<Nil>>

\* C11 (as claimed): over creation by gmatch, any iterator invocations and
\* one or more finalizer invocations on the same handle, the matcher object
\* is released at most once: a finalizer invocation after the first finds a
\* cleared handle and does nothing.
C11_ReleasedAtMostOnce ==
    call.fn = "gmatch" => it.freed <= 1

\* C12 (as claimed): codepoint(char(c1, ..., cn)) returns c1, ..., cn in
\* order for valid codepoints, also above U+FFFF; stated for the calls whose
\* range covers all n positions (the range 1..n given, or n <= 1).
C12_CharCodepointRoundTrip ==
    (pc = "done" /\ call.fn = "char" /\ (call.i.given \/ Len(call.cps) <= 1)) =>
        ret = Ret(Len(call.cps), [k \in 1..Len(call.cps) |-> Num(call.cps[k])])

\* C13 (as claimed): codepoint(s, i, j) clamps i and j to L; the result
\* count it reports equals the number of values pushed and is never negative.
C13_CodepointCountIsPushed ==
    Returned("codepoint") => (ret.n = Len(ret.vals) /\ ret.n >= 0)

\* C14 (as claimed): in gsub with a callable or table repl, the value the
\* nested call or table lookup produces is consumed within its iteration:
\* at the start of every iteration of the match loop the stack depth equals
\* the depth at loop entry.
C14_GsubStackDepthConstant ==
    (Returned("gsub") /\ call.repl.t \in {"function", "table"}) =>
        \A k \in 1..Len(obs.depths) : obs.depths[k] = obs.depths[1]

====
